---- MODULE Spec2Model ----
(***************************************************************************)
(* News-analyzer: the per-source article stores, the RSS fetchers that      *)
(* grow them and the weekly aggregator that builds the combined bundle.     *)
(*                                                                         *)
(* Files are modelled by their parsed content.  A store file is a record   *)
(* [st, data]: st = "missing" (no file), "corrupt" (a file json.load       *)
(* rejects) or "ok" (a JSON array, data holds its records in order).       *)
(***************************************************************************)
EXTENDS Integers, Sequences, FiniteSets, TLC

(***************************************************************************)
(* Bounds of the model.                                                    *)
(***************************************************************************)
MaxFeedLen == 2
MaxStoreLen == 2
MaxMitStoreLen == 1
MaxClock == 2
MaxFailAt == 1
YearEdgeDays == 4
DefaultMaxArticles == 10

\* Python's None where a datetime is expected (ord 0 is no date)
None == [ord |-> 0, sec |-> 0, us |-> 0]
Absent == "<absent>"

\* a week_tag argument left out (Python None)
NoWeek == "<none>"

(***************************************************************************)
(* datetime: [ord, sec, us] with ord the proleptic Gregorian ordinal       *)
(* (1 = 0001-01-01, a Monday), sec the second of the day, us microseconds. *)
(***************************************************************************)
IsLeap(y) == (y % 4 = 0) /\ ((y % 100 # 0) \/ (y % 400 = 0))

DaysBeforeYear(y) == (y - 1) * 365 + (y - 1) \div 4 - (y - 1) \div 100 + (y - 1) \div 400

DaysInMonth(y, m) ==
    IF m = 2 THEN (IF IsLeap(y) THEN 29 ELSE 28)
    ELSE IF m \in {4, 6, 9, 11} THEN 30 ELSE 31

RECURSIVE DaysBeforeMonth(_, _)
DaysBeforeMonth(y, m) == IF m = 1 THEN 0 ELSE DaysBeforeMonth(y, m - 1) + DaysInMonth(y, m - 1)

Ymd2Ord(y, m, d) == DaysBeforeYear(y) + DaysBeforeMonth(y, m) + d

DT(y, m, d, hh, mm, ss) == [ord |-> Ymd2Ord(y, m, d), sec |-> hh * 3600 + mm * 60 + ss, us |-> 0]

\* datetime.min
DateTimeMin == [ord |-> 1, sec |-> 0, us |-> 0]

\* a < b on datetimes
DtLess(a, b) ==
    \/ a.ord < b.ord
    \/ a.ord = b.ord /\ a.sec < b.sec
    \/ a.ord = b.ord /\ a.sec = b.sec /\ a.us < b.us

\* the year of ordinal n (datetime's _ord2ymd)
YearOfOrd(n) ==
    LET n0 == n - 1
        n400 == n0 \div 146097
        r400 == n0 % 146097
        n100 == r400 \div 36524
        r100 == r400 % 36524
        n4 == r100 \div 1461
        r4 == r100 % 1461
        n1 == r4 \div 365
        year == n400 * 400 + 1 + n100 * 100 + n4 * 4 + n1
    IN  IF n1 = 4 \/ n100 = 4 THEN year - 1 ELSE year

\* date.weekday(): Monday = 0
Weekday(n) == (n + 6) % 7

IsoWeek1Monday(y) ==
    LET firstday == Ymd2Ord(y, 1, 1)
        firstweekday == (firstday + 6) % 7
        week1monday == firstday - firstweekday
    IN  IF firstweekday > 3 THEN week1monday + 7 ELSE week1monday

\* date.isocalendar(): <<ISO year, ISO week>>
IsoCalendar(n) ==
    LET y == YearOfOrd(n)
        w == (n - IsoWeek1Monday(y)) \div 7
    IN  IF n < IsoWeek1Monday(y)
        THEN <<y - 1, (n - IsoWeek1Monday(y - 1)) \div 7 + 1>>
        ELSE IF w >= 52 /\ n >= IsoWeek1Monday(y + 1)
             THEN <<y + 1, 1>>
             ELSE <<y, w + 1>>

\* f"{year}-W{week_num:02d}"
FormatWeek(yw) ==
    ToString(yw[1]) \o "-W" \o (IF yw[2] < 10 THEN "0" ELSE "") \o ToString(yw[2])

\* get_week_tag with the calendar year in place of the ISO week-year
GetWeekTagCalendarYear(target_date, now) ==
    LET d == IF target_date = None THEN now ELSE target_date
    IN  FormatWeek(<<YearOfOrd(d.ord), IsoCalendar(d.ord)[2]>>)

\* get_week_tag(target_date): None means datetime.now()
get_week_tag(target_date, now) ==
    LET d == IF target_date = None THEN now ELSE target_date
    IN  FormatWeek(IsoCalendar(d.ord))

\* get_week_start_end without the replace(...) of lines 45-46: the bounds keep
\* the time of day of the date
GetWeekStartEndKeepTime(target_date, now) ==
    LET d == IF target_date = None THEN now ELSE target_date
        start == d.ord - Weekday(d.ord)
    IN  <<[ord |-> start, sec |-> d.sec, us |-> d.us],
          [ord |-> start + 6, sec |-> d.sec, us |-> d.us]>>

\* get_week_start_end(target_date): Monday 00:00:00 and Sunday 23:59:59.999999
get_week_start_end(target_date, now) ==
    LET d == IF target_date = None THEN now ELSE target_date
        start == d.ord - Weekday(d.ord)
    IN  <<[ord |-> start, sec |-> 0, us |-> 0],
          [ord |-> start + 6, sec |-> 86399, us |-> 999999]>>

(***************************************************************************)
(* The raw date strings of the model and what parse_article_date makes of  *)
(* each: dateutil's result with the timezone dropped by                    *)
(* replace(tzinfo=None) (the wall-clock fields are kept, not converted).   *)
(* date_parser.parse is called without a default (line 72), so the fields  *)
(* a string does not give are those of the current day at midnight: the    *)
(* time-only string "10:00" parses to 10:00:00 of the day of the parse.    *)
(***************************************************************************)
RawDates ==
    {"Fri, 01 Aug 2025 10:00:00 GMT", "2025-08-04T09:00:00Z", "10:00", "not a date", ""}

parse_article_date(date_string, now) ==
    IF date_string = "" THEN None
    ELSE CASE date_string = "Fri, 01 Aug 2025 10:00:00 GMT" -> DT(2025, 8, 1, 10, 0, 0)
           [] date_string = "2025-08-04T09:00:00Z" -> DT(2025, 8, 4, 9, 0, 0)
           [] date_string = "10:00" -> [ord |-> now.ord, sec |-> 10 * 3600, us |-> 0]
           [] OTHER -> None

\* key=lambda x: parse_article_date(x.get("date", "")) or datetime.min
SortKey(article, now) ==
    LET p == parse_article_date(article.date, now)
    IN  IF p = None THEN DateTimeMin ELSE p

(***************************************************************************)
(* sorted(xs, key=..., reverse=True) and list.sort(key=..., reverse=True): *)
(* a stable sort, descending by key; equal keys keep their order.          *)
(***************************************************************************)
\* the insertion of a descending order got by reversing an ascending sort:
\* an article goes before those of the same date already placed
RECURSIVE InsertDescTiesReversed(_, _, _)
InsertDescTiesReversed(sorted, x, now) ==
    IF sorted = <<>> THEN <<x>>
    ELSE IF ~DtLess(SortKey(x, now), SortKey(Head(sorted), now))
         THEN <<x>> \o sorted
         ELSE <<Head(sorted)>> \o InsertDescTiesReversed(Tail(sorted), x, now)

RECURSIVE InsertDesc(_, _, _)
InsertDesc(sorted, x, now) ==
    IF sorted = <<>> THEN <<x>>
    ELSE IF DtLess(SortKey(Head(sorted), now), SortKey(x, now))
         THEN <<x>> \o sorted
         ELSE <<Head(sorted)>> \o InsertDesc(Tail(sorted), x, now)

RECURSIVE SortByDateDesc(_, _)
SortByDateDesc(xs, now) ==
    IF xs = <<>> THEN <<>>
    ELSE InsertDesc(SortByDateDesc(SubSeq(xs, 1, Len(xs) - 1), now), xs[Len(xs)], now)

(***************************************************************************)
(* Feed entries as feedparser delivers them.  A field the entry does not   *)
(* carry is Absent.                                                        *)
(***************************************************************************)
TechEntries ==
    { [link |-> "a", title |-> "bc", published |-> "Fri, 01 Aug 2025 10:00:00 GMT", updated |-> "",
       content |-> Absent, summary |-> "<p>chips</p>", description |-> "<p>chips</p>"],
      [link |-> "ab", title |-> "c", published |-> "", updated |-> "2025-08-04T09:00:00Z",
       content |-> "<b>full</b>", summary |-> "short", description |-> "short"],
      [link |-> "x", title |-> Absent, published |-> "not a date", updated |-> "",
       content |-> Absent, summary |-> Absent, description |-> "  "],
      [link |-> "z", title |-> "w", published |-> Absent, updated |-> Absent,
       content |-> Absent, summary |-> "plain", description |-> Absent] }

\* BeautifulSoup(content, "html.parser").get_text().strip()
StripMarkup(html) ==
    CASE html = "<p>chips</p>" -> "chips"
      [] html = "<b>full</b>" -> "full"
      [] html = "  " -> ""
      [] OTHER -> html

\* dict.get(key, default) on a field that may be Absent
Get(v, default) == IF v = Absent THEN default ELSE v

\* get_article_id digesting link and title with a separator between them
GetArticleIdSeparated(entry) == Get(entry.link, "") \o "|" \o Get(entry.title, "")

\* hashlib.md5((link + title).encode()).hexdigest(): the digest is modelled
\* by the string it digests (md5 taken as injective on the model's strings)
get_article_id(entry) == Get(entry.link, "") \o Get(entry.title, "")

\* s[:n]
Take(s, n) == SubSeq(s, 1, IF n < Len(s) THEN n ELSE Len(s))

\* the article of lines 137-162 tagged with the week of the fetch whatever its date
NewArticleWeekOfFetch(entry, now, source) ==
    LET content == IF entry.content # Absent THEN entry.content
                   ELSE IF entry.summary # Absent THEN entry.summary
                   ELSE Get(entry.description, "")
        date_string == IF Get(entry.published, "") # "" THEN entry.published
                       ELSE Get(entry.updated, "")
    IN  [id |-> get_article_id(entry),
         date |-> date_string,
         title |-> Get(entry.title, ""),
         link |-> Get(entry.link, ""),
         description |-> Get(entry.description, ""),
         content |-> StripMarkup(content),
         week |-> get_week_tag(None, now),
         source |-> source,
         processed_at |-> now,
         summary |-> Absent]

\* the article fetch builds from one feed entry (lines 137-162)
NewArticle(entry, now, source) ==
    LET content == IF entry.content # Absent THEN entry.content
                   ELSE IF entry.summary # Absent THEN entry.summary
                   ELSE Get(entry.description, "")
        date_string == IF Get(entry.published, "") # "" THEN entry.published
                       ELSE Get(entry.updated, "")
        article_date == parse_article_date(date_string, now)
    IN  [id |-> get_article_id(entry),
         date |-> date_string,
         title |-> Get(entry.title, ""),
         link |-> Get(entry.link, ""),
         description |-> Get(entry.description, ""),
         content |-> StripMarkup(content),
         week |-> IF article_date # None THEN get_week_tag(article_date, now)
                  ELSE get_week_tag(None, now),
         source |-> source,
         processed_at |-> now,
         summary |-> Absent]

\* the loop without the skip of lines 132-135
NewArticlesNoSkip(entries, existing_ids, now, source) ==
    [i \in 1..Len(entries) |-> NewArticle(entries[i], now, source)]

\* the loop of lines 129-165: entries whose id is not in existing_ids, in feed order
RECURSIVE NewArticles(_, _, _, _)
NewArticles(entries, existing_ids, now, source) ==
    IF entries = <<>> THEN <<>>
    ELSE IF get_article_id(Head(entries)) \in existing_ids
         THEN NewArticles(Tail(entries), existing_ids, now, source)
         ELSE <<NewArticle(Head(entries), now, source)>>
                  \o NewArticles(Tail(entries), existing_ids, now, source)

\* the result built from the first article of the list, without the sort
LatestResultFirst(articles, now) ==
    [title |-> articles[1].title,
     news_text |-> articles[1].content,
     link |-> articles[1].link,
     date |-> articles[1].date,
     source |-> articles[1].source]

\* the result built from the latest article (lines 185-191, 200-206)
LatestResult(articles, now) ==
    LET latest_article == SortByDateDesc(articles, now)[1]
    IN  [title |-> latest_article.title,
         news_text |-> latest_article.content,
         link |-> latest_article.link,
         date |-> latest_article.date,
         source |-> latest_article.source]

ErrorResult(e) ==
    [news_text |-> "Error fetching news: " \o e, link |-> "", title |-> "", date |-> "",
     source |-> "Techmeme"]

MissingStore == [st |-> "missing", data |-> <<>>]
CorruptStore == [st |-> "corrupt", data |-> <<>>]

\* line 168 keeping only the new articles
MergeNewOnly(existing_data, new_articles) == new_articles

\* all_articles = existing_data + new_articles (line 168)
Merge(existing_data, new_articles) == existing_data \o new_articles

(***************************************************************************)
(* The body of fetch_techmeme_news's try block (lines 110-206) as a        *)
(* function of what it reads: the store file, the feed (feed.raises:       *)
(* feedparser.parse raised), the clock, and io, the outcome of the rewrite *)
(* of lines 171-173: "ok", "open_fails" (makedirs or open raised, the file *)
(* is untouched) or "dump_fails" (open(..., "w") truncated the file and    *)
(* json.dump raised: what is left is no JSON document).  Yields the store  *)
(* file afterwards, the exception raised ("" for none), the value          *)
(* returned, and the numbers of entries read, appended and skipped.        *)
(***************************************************************************)
FetchBody(store, feed, max_articles, now, io) ==
    IF feed.raises
    THEN [store |-> store, exception |-> "feed", result |-> <<>>, entries |-> 0, added |-> 0, skipped |-> 0]
    ELSE IF feed.entries = <<>>
    THEN [store |-> store, exception |-> "",
          result |-> [news_text |-> "No news articles found", link |-> "", title |-> "", date |-> ""],
          entries |-> 0, added |-> 0, skipped |-> 0]
    ELSE IF store.st = "corrupt"
    THEN [store |-> store, exception |-> "json", result |-> <<>>,
          entries |-> Len(feed.entries), added |-> 0, skipped |-> 0]
    ELSE
      LET existing_data == IF store.st = "ok" THEN store.data ELSE <<>>
          existing_ids == {existing_data[i].id : i \in 1..Len(existing_data)}
          new_articles == NewArticles(Take(feed.entries, max_articles), existing_ids, now, "Techmeme")
          all_articles == Merge(existing_data, new_articles)
      IN  IF io = "open_fails"
          THEN [store |-> store, exception |-> "io", result |-> <<>>,
                entries |-> Len(feed.entries), added |-> 0, skipped |-> 0]
          ELSE IF io = "dump_fails"
          THEN [store |-> CorruptStore, exception |-> "io", result |-> <<>>,
                entries |-> Len(feed.entries), added |-> 0, skipped |-> 0]
          ELSE [store |-> [st |-> "ok", data |-> all_articles],
                exception |-> "",
                result |-> IF new_articles = <<>>
                           THEN IF existing_data # <<>>
                                THEN LatestResult(existing_data, now)
                                ELSE [news_text |-> "", link |-> "", title |-> "", date |-> "",
                                      source |-> "Techmeme"]
                           ELSE LatestResult(new_articles, now),
                entries |-> Len(feed.entries),
                added |-> Len(new_articles),
                skipped |-> Len(Take(feed.entries, max_articles)) - Len(new_articles)]

\* what a call yields when an exception leaves it
Raised == [raised |-> TRUE]

\* the try block without its except clause: the exception leaves the function
FetchUncaught(store, feed, max_articles, now, io) ==
    LET b == FetchBody(store, feed, max_articles, now, io)
    IN  [store |-> b.store, exc |-> b.exception # "",
         result |-> IF b.exception # "" THEN Raised ELSE b.result,
         entries |-> b.entries, added |-> b.added, skipped |-> b.skipped]

\* fetch_techmeme_news(max_articles): the body, and the except clause of lines 208-210
fetch_techmeme_news(store, feed, max_articles, now, io) ==
    LET b == FetchBody(store, feed, max_articles, now, io)
    IN  [store |-> b.store, exc |-> b.exception # "",
         result |-> IF b.exception # "" THEN ErrorResult(b.exception) ELSE b.result,
         entries |-> b.entries, added |-> b.added, skipped |-> b.skipped]

(***************************************************************************)
(* The summarizer.  The text-generation service answers Llm(news_text)     *)
(* or fails (fails = TRUE: chain.invoke raised).                           *)
(***************************************************************************)
BlankTexts == {"", " ", "  "}

\* str.strip() on the texts of the model
Strip(text) ==
    IF text \in BlankTexts THEN ""
    ELSE IF text = " chips " THEN "chips"
    ELSE text

Llm(news_text) == "summary of " \o news_text

NoContentMarker == "No content available for summarization"

ServiceError == "Error generating summary: svc"

\* no techmeme_summary_<week>.json written
NoFile == [week |-> "<none>"]

\* summarize_news without the check of lines 215-216
SummarizeRunNoBlankCheck(title, news_text, link, date, week_tag, save_to_file, now, fails) ==
    LET article_date == parse_article_date(date, now)
        wt == IF week_tag # NoWeek THEN week_tag
              ELSE IF article_date # None THEN get_week_tag(article_date, now)
              ELSE get_week_tag(None, now)
        summary == [title |-> title, summary |-> IF fails THEN ServiceError ELSE Llm(news_text),
                    link |-> link, date |-> date, week |-> wt, source |-> "Techmeme"]
    IN  [value |-> summary,
         calls |-> <<news_text>>,
         file |-> IF save_to_file /\ ~fails THEN [week |-> wt, content |-> summary] ELSE NoFile]

(***************************************************************************)
(* summarize_news(title, news_text, link, date, week_tag, save_to_file):   *)
(* yields the value returned, the texts handed to chain.invoke (calls) and *)
(* the summary file written (file).                                        *)
(***************************************************************************)
SummarizeRun(title, news_text, link, date, week_tag, save_to_file, now, fails) ==
    IF Strip(news_text) = ""
    THEN [value |-> [title |-> title, summary |-> NoContentMarker, link |-> link, date |-> date],
          calls |-> <<>>,
          file |-> NoFile]
    ELSE
      LET article_date == parse_article_date(date, now)
          wt == IF week_tag # NoWeek THEN week_tag
                ELSE IF article_date # None THEN get_week_tag(article_date, now)
                ELSE get_week_tag(None, now)
          summary == [title |-> title, summary |-> IF fails THEN ServiceError ELSE Llm(news_text),
                      link |-> link, date |-> date, week |-> wt, source |-> "Techmeme"]
      IN  [value |-> summary,
           calls |-> <<news_text>>,
           file |-> IF save_to_file /\ ~fails THEN [week |-> wt, content |-> summary] ELSE NoFile]

\* the value summarize_news(..., save_to_file=False) returns
summarize_news(title, news_text, link, date, week_tag, now, fails) ==
    SummarizeRun(title, news_text, link, date, week_tag, FALSE, now, fails).value

\* whether summarize_news reaches chain.invoke
InvokesService(news_text) == Strip(news_text) # ""

(***************************************************************************)
(* news_loader.py is not among the source files; unified_news_loader.py    *)
(* imports its fetch_mit_news, get_articles_for_week, summarize_news,      *)
(* parse_article_date, get_week_tag and get_week_start_end.  They are      *)
(* modelled from the specification (sections 4.1, 4.3, 4.4 step 2, 4.5).   *)
(***************************************************************************)
news_parse_article_date(date_string, now) == parse_article_date(date_string, now)

news_get_week_tag(target_date, now) == get_week_tag(target_date, now)

news_get_week_start_end(target_date, now) == get_week_start_end(target_date, now)

news_summarize_news(title, news_text, link, date, week_tag, fails) ==
    IF news_text \in BlankTexts
    THEN [title |-> title, summary |-> NoContentMarker, link |-> link, date |-> date]
    ELSE IF ~fails
    THEN [title |-> title, summary |-> Llm(news_text), link |-> link, date |-> date]
    ELSE [title |-> title, summary |-> ServiceError, link |-> link, date |-> date]

MitEntries ==
    { [link |-> "m1", title |-> "t1", published |-> "Fri, 01 Aug 2025 10:00:00 GMT", updated |-> "",
       content |-> Absent, summary |-> "<p>chips</p>", description |-> "<p>chips</p>"],
      [link |-> "m2", title |-> "t2", published |-> "not a date", updated |-> "",
       content |-> Absent, summary |-> "plain", description |-> "plain"] }

\* fetch_mit_news(max_articles): section 4.3, steps 1-6
fetch_mit_news(store, feed, max_articles, now) ==
    IF feed.entries = <<>> \/ store.st = "corrupt"
    THEN [store |-> store,
          result |-> [news_text |-> "", link |-> "", title |-> "", date |-> "", source |-> "MIT AI News"]]
    ELSE
      LET existing_data == store.data
          existing_ids == {existing_data[i].id : i \in 1..Len(existing_data)}
          new_articles == NewArticles(Take(feed.entries, max_articles), existing_ids, now, "MIT AI News")
      IN  [store |-> [st |-> "ok", data |-> existing_data \o new_articles],
           result |-> IF new_articles # <<>> THEN LatestResult(new_articles, now)
                      ELSE IF existing_data # <<>> THEN LatestResult(existing_data, now)
                      ELSE [news_text |-> "", link |-> "", title |-> "", date |-> "",
                            source |-> "MIT AI News"]]

\* news_loader.get_articles_for_week(week_tag): section 4.4 step 2
get_mit_articles_for_week(store, week_tag) ==
    IF store.st # "ok" THEN <<>>
    ELSE SelectSeq(store.data, LAMBDA a : a.week = week_tag)

(***************************************************************************)
(* The weekly aggregator.                                                  *)
(***************************************************************************)
\* get_articles_for_week without the week filter of lines 266-268
GetArticlesUnfiltered(store, week_tag, now) ==
    IF store.st # "ok" THEN <<>> ELSE SortByDateDesc(store.data, now)

\* techmeme_loader.get_articles_for_week(week_tag)
get_articles_for_week(store, week_tag, now) ==
    LET wt == IF week_tag = NoWeek THEN get_week_tag(None, now) ELSE week_tag
    IN  IF store.st = "missing" THEN <<>>
        ELSE IF store.st = "corrupt" THEN <<>>
        ELSE SortByDateDesc(SelectSeq(store.data, LAMBDA a : a.week = wt), now)

\* article["source"] = name, for each article of the list
WithSource(articles, name) ==
    [i \in 1..Len(articles) |-> [articles[i] EXCEPT !.source = name]]

\* the number of articles before position i that need a summary: the
\* service call for article i is the (CallsBefore + 1)-th of the run
RECURSIVE CallsBefore(_, _)
CallsBefore(articles, i) ==
    IF i <= 1 THEN 0
    ELSE CallsBefore(articles, i - 1)
         + (IF articles[i - 1].summary \in {Absent, ""} /\ InvokesService(articles[i - 1].content)
            THEN 1 ELSE 0)

\* the loop of lines 105-118 when the failure of a service call leaves it:
\* the article of the failed call and those after it are not collected
WithSummariesAborting(articles, failAt) ==
    LET failed == {i \in 1..Len(articles) :
                      /\ articles[i].summary \in {Absent, ""}
                      /\ InvokesService(articles[i].content)
                      /\ failAt = CallsBefore(articles, i) + 1}
        kept == IF failed = {} THEN Len(articles)
                ELSE (CHOOSE i \in failed : TRUE) - 1
    IN  [i \in 1..kept |->
            IF articles[i].summary \in {Absent, ""}
            THEN [articles[i] EXCEPT !.summary =
                     news_summarize_news(articles[i].title, articles[i].content, articles[i].link,
                                         articles[i].date, articles[i].week, FALSE).summary]
            ELSE articles[i]]

\* the loop of lines 105-118 leaving the summary unset when the service fails
WithSummariesUnlessFailed(articles, failAt) ==
    [i \in 1..Len(articles) |->
        IF articles[i].summary \in {Absent, ""}
              /\ ~(InvokesService(articles[i].content) /\ failAt = CallsBefore(articles, i) + 1)
        THEN [articles[i] EXCEPT !.summary =
                 news_summarize_news(articles[i].title, articles[i].content, articles[i].link,
                                     articles[i].date, articles[i].week, FALSE).summary]
        ELSE articles[i]]

\* the loop of lines 105-118; failAt = k: the k-th service call of the run fails (0: none)
WithSummaries(articles, failAt) ==
    [i \in 1..Len(articles) |->
        IF articles[i].summary \in {Absent, ""}
        THEN [articles[i] EXCEPT !.summary =
                 news_summarize_news(articles[i].title, articles[i].content, articles[i].link,
                                     articles[i].date, articles[i].week,
                                     failAt = CallsBefore(articles, i) + 1).summary]
        ELSE articles[i]]

\* the texts handed to the service, in call order
RECURSIVE ServiceCalls(_)
ServiceCalls(articles) ==
    IF articles = <<>> THEN <<>>
    ELSE (IF Head(articles).summary \in {Absent, ""} /\ InvokesService(Head(articles).content)
          THEN <<Head(articles).content>> ELSE <<>>) \o ServiceCalls(Tail(articles))

NoBundle == [article_count |-> -1]

\* create_combined_weekly_data without the early return of lines 97-99
CreateCombinedAlways(mit, tech, week_tag, now, failAt) ==
    LET wt == IF week_tag = NoWeek THEN news_get_week_tag(None, now) ELSE week_tag
        all_articles == WithSource(get_mit_articles_for_week(mit, wt), "MIT AI News")
                            \o WithSource(get_articles_for_week(tech, wt, now), "Techmeme")
        articles_with_summaries == SortByDateDesc(WithSummaries(all_articles, failAt), now)
        bounds == news_get_week_start_end(None, now)
    IN  [week |-> wt,
         start_of_week |-> bounds[1],
         end_of_week |-> bounds[2],
         article_count |-> Len(articles_with_summaries),
         sources |-> {articles_with_summaries[i].source : i \in 1..Len(articles_with_summaries)},
         articles |-> articles_with_summaries]

\* create_combined_weekly_data without the sort of line 121
CreateCombinedUnsorted(mit, tech, week_tag, now, failAt) ==
    LET wt == IF week_tag = NoWeek THEN news_get_week_tag(None, now) ELSE week_tag
        all_articles == WithSource(get_mit_articles_for_week(mit, wt), "MIT AI News")
                            \o WithSource(get_articles_for_week(tech, wt, now), "Techmeme")
        articles_with_summaries == WithSummaries(all_articles, failAt)
        bounds == news_get_week_start_end(None, now)
    IN  IF all_articles = <<>> THEN NoBundle
        ELSE [week |-> wt,
              start_of_week |-> bounds[1],
              end_of_week |-> bounds[2],
              article_count |-> Len(articles_with_summaries),
              sources |-> {articles_with_summaries[i].source : i \in 1..Len(articles_with_summaries)},
              articles |-> articles_with_summaries]

(***************************************************************************)
(* create_combined_weekly_data(week_tag): yields the bundle it writes to   *)
(* combined-week-<tag>.json and returns, or NoBundle when it returns None  *)
(* and writes nothing.                                                     *)
(***************************************************************************)
create_combined_weekly_data(mit, tech, week_tag, now, failAt) ==
    LET wt == IF week_tag = NoWeek THEN news_get_week_tag(None, now) ELSE week_tag
        mit_articles == WithSource(get_mit_articles_for_week(mit, wt), "MIT AI News")
        techmeme_articles == WithSource(get_articles_for_week(tech, wt, now), "Techmeme")
        all_articles == mit_articles \o techmeme_articles
        articles_with_summaries == SortByDateDesc(WithSummaries(all_articles, failAt), now)
        bounds == news_get_week_start_end(None, now)
    IN  IF all_articles = <<>> THEN NoBundle
        ELSE [week |-> wt,
              start_of_week |-> bounds[1],
              end_of_week |-> bounds[2],
              article_count |-> Len(articles_with_summaries),
              sources |-> {articles_with_summaries[i].source : i \in 1..Len(articles_with_summaries)},
              articles |-> articles_with_summaries]

(***************************************************************************)
(* load_all_news_sources(max_articles_per_source): the MIT fetch, then the *)
(* Techmeme fetch, each in its own try/except; yields sources_summary.     *)
(***************************************************************************)
\* the status of lines 38-44 and 50-56 from what the fetch call yielded
StatusOf(result) ==
    IF result = Raised THEN "Error"
    ELSE IF result.news_text # "" THEN "Success"
    ELSE "No new articles"

\* sources_summary from the two statuses
load_all_news_sources(mit_status, techmeme_status) ==
    [s \in {"MIT AI News", "Techmeme"} |->
        IF s = "MIT AI News" THEN mit_status ELSE techmeme_status]

(***************************************************************************)
(* The state.                                                              *)
(***************************************************************************)
VARIABLES
    clk,        \* the clock: now = Clock(clk)
    techStore,  \* data/techmeme_news.json
    mitStore,   \* data/mit_ai_news.json
    combined,   \* the weekly files that exist: week tag -> content of
                \* data/combined-week-<tag>.json, and "techmeme-week-<tag>" ->
                \* content of data/techmeme-week-<tag>.json
    last,       \* the last operation run and what it returned
    pc          \* "idle", or "load" inside load_all_news_sources

vars == <<clk, techStore, mitStore, combined, last, pc>>

\* the instants at which the pipeline runs: Fri 2025-08-01 12:00 and every fourth day after
Clock(i) == [ord |-> Ymd2Ord(2025, 8, 1) + 4 * (i - 1), sec |-> 43200, us |-> 0]

now == Clock(clk)

SeqsUpTo(S, n) == UNION {[1..k -> S] : k \in 0..n}

Feeds(S, n) ==
    {[raises |-> FALSE, entries |-> e] : e \in SeqsUpTo(S, n)}
        \cup {[raises |-> TRUE, entries |-> <<>>]}

WeekArgs == {NoWeek, "2025-W31"}

Init ==
    /\ clk = 1
    /\ techStore = MissingStore
    /\ mitStore = MissingStore
    /\ combined = <<>>
    /\ last = [op |-> "none"]
    /\ pc = "idle"

Tick ==
    /\ pc = "idle"
    /\ clk < MaxClock
    /\ clk' = clk + 1
    /\ UNCHANGED <<techStore, mitStore, combined, last, pc>>

\* what last keeps of a run of fetch_techmeme_news
FetchRecord(op, r, io) ==
    [op |-> op, store_was |-> techStore.st, io |-> io, result |-> r.result, exc |-> r.exc,
     entries |-> r.entries, added |-> r.added, skipped |-> r.skipped]

\* python3 techmeme_loader.py fetch
FetchTechmeme(feed, max_articles, io) ==
    /\ pc = "idle"
    /\ \E r \in {fetch_techmeme_news(techStore, feed, max_articles, now, io)} :
          /\ Len(r.store.data) <= MaxStoreLen
          /\ techStore' = r.store
          /\ last' = FetchRecord("fetch", r, io)
    /\ UNCHANGED <<clk, mitStore, combined, pc>>

(***************************************************************************)
(* python3 unified_news_loader.py fetch: load_all_news_sources, in its two *)
(* steps.  pc = "load" between them: the MIT fetch is done (its status is  *)
(* in sources_summary, kept in last) and the Techmeme fetch comes next.    *)
(***************************************************************************)
LoadMit(mitFeed) ==
    /\ pc = "idle"
    /\ \E m \in {fetch_mit_news(mitStore, mitFeed, DefaultMaxArticles, now)} :
          /\ Len(m.store.data) <= MaxMitStoreLen
          /\ mitStore' = IF mitFeed.raises THEN mitStore ELSE m.store
          /\ last' = [op |-> "load_mit",
                      mit |-> StatusOf(IF mitFeed.raises THEN Raised ELSE m.result)]
    /\ pc' = "load"
    /\ UNCHANGED <<clk, techStore, combined>>

LoadTech(techFeed, io) ==
    /\ pc = "load"
    /\ \E r \in {fetch_techmeme_news(techStore, techFeed, DefaultMaxArticles, now, io)} :
          /\ Len(r.store.data) <= MaxStoreLen
          /\ techStore' = r.store
          /\ last' = FetchRecord("load", r, io)
                       @@ [summary |-> load_all_news_sources(last.mit, StatusOf(r.result))]
    /\ pc' = "idle"
    /\ UNCHANGED <<clk, mitStore, combined>>

\* list(set(...)) of line 132: the elements of S in the order the set's hashing
\* yields, which differs from one interpreter run to the next
ListsOf(S) ==
    {f \in [1..Cardinality(S) -> S] : \A i, j \in 1..Cardinality(S) : i # j => f[i] # f[j]}

\* an aggregation run that also writes the summaries back into the Techmeme store
AggregateWritingBack(week_tag, failAt) ==
    /\ pc = "idle"
    /\ \E b \in {create_combined_weekly_data(mitStore, techStore, week_tag, now, failAt)} :
          /\ IF b = NoBundle THEN combined' = combined
             ELSE \E order \in ListsOf(b.sources) :
                     combined' = [w \in DOMAIN combined \cup {b.week} |->
                                     IF w = b.week THEN [b EXCEPT !.sources = order]
                                     ELSE combined[w]]
          /\ last' = [op |-> "agg", week_tag |-> week_tag, at |-> clk, failAt |-> failAt,
                      wrote |-> b # NoBundle]
    /\ techStore' = IF techStore.st = "ok"
                    THEN [techStore EXCEPT !.data = WithSummaries(techStore.data, failAt)]
                    ELSE techStore
    /\ UNCHANGED <<clk, mitStore, pc>>

\* python3 unified_news_loader.py combined [week]
Aggregate(week_tag, failAt) ==
    /\ pc = "idle"
    /\ \E b \in {create_combined_weekly_data(mitStore, techStore, week_tag, now, failAt)} :
          /\ IF b = NoBundle THEN combined' = combined
             ELSE \E order \in ListsOf(b.sources) :
                     combined' = [w \in DOMAIN combined \cup {b.week} |->
                                     IF w = b.week THEN [b EXCEPT !.sources = order]
                                     ELSE combined[w]]
          /\ last' = [op |-> "agg", week_tag |-> week_tag, at |-> clk, failAt |-> failAt,
                      wrote |-> b # NoBundle]
    /\ UNCHANGED <<clk, techStore, mitStore, pc>>

\* the max_articles a caller passes: none, one, the default
MaxArticleArgs == {0, 1, DefaultMaxArticles}

FailAts == 0..MaxFailAt

IOFaults == {"open_fails", "dump_fails"}

(***************************************************************************)
(* Spec: the fetchers, in runs in which every file operation succeeds.     *)
(***************************************************************************)
Next ==
    \/ Tick
    \/ \E feed \in Feeds(TechEntries, MaxFeedLen), n \in MaxArticleArgs :
           FetchTechmeme(feed, n, "ok")
    \/ \E mf \in Feeds(MitEntries, 1) : LoadMit(mf)
    \/ \E tf \in Feeds(TechEntries, MaxFeedLen) : LoadTech(tf, "ok")

Spec == Init /\ [][Next]_vars

(***************************************************************************)
(* SpecIO: the fetchers, where the rewrite of the store file may fail too. *)
(***************************************************************************)
NextIO ==
    \/ Tick
    \/ \E feed \in Feeds(TechEntries, MaxFeedLen), n \in MaxArticleArgs, io \in {"ok"} \cup IOFaults :
           FetchTechmeme(feed, n, io)
    \/ \E mf \in Feeds(MitEntries, 1) : LoadMit(mf)
    \/ \E tf \in Feeds(TechEntries, MaxFeedLen), io \in {"ok"} \cup IOFaults : LoadTech(tf, io)

SpecIO == Init /\ [][NextIO]_vars

(***************************************************************************)
(* SpecAgg: the stores as load_all_news_sources grows them (or leaves the  *)
(* Techmeme store cut short when its rewrite fails), and the aggregator.   *)
(***************************************************************************)
NextAgg ==
    \/ Tick
    \/ \E mf \in Feeds(MitEntries, 1) : LoadMit(mf)
    \/ \E tf \in Feeds(TechEntries, MaxFeedLen), io \in {"ok", "dump_fails"} : LoadTech(tf, io)
    \/ \E w \in WeekArgs, k \in FailAts : Aggregate(w, k)

SpecAgg == Init /\ [][NextAgg]_vars

(***************************************************************************)
(* SpecUtil: the summarizer and the week utilities, called on their own.   *)
(***************************************************************************)
SummaryTexts == BlankTexts \cup {"chips", " chips "}

\* summarize_news(title, news_text, link, date, week_tag, save_to_file)
Summarize(title, news_text, link, date, week_tag, save_to_file, fails) ==
    /\ pc = "idle"
    /\ \E r \in {SummarizeRun(title, news_text, link, date, week_tag, save_to_file, now, fails)} :
          last' = [op |-> "summarize", news_text |-> news_text, date |-> date,
                   week_tag |-> week_tag, fails |-> fails,
                   out |-> r.value, calls |-> r.calls, file |-> r.file]
    /\ UNCHANGED <<clk, techStore, mitStore, combined, pc>>

\* the years at whose first of January the dates of the model lie
EdgeYears == 2015..2030

\* the days of the model: those around each first of January, and the week of
\* 2025-08-01 with the Monday after it
DateOrds ==
    UNION {(Ymd2Ord(y, 1, 1) - YearEdgeDays)..(Ymd2Ord(y, 1, 1) + YearEdgeDays) : y \in EdgeYears}
        \cup (Ymd2Ord(2025, 7, 28)..Ymd2Ord(2025, 8, 4))

Dates == [ord : DateOrds, sec : {0, 36000, 86399}, us : {0, 999999}]

\* get_week_tag(target_date) and get_week_start_end(target_date)
WeekOf(target_date) ==
    /\ pc = "idle"
    /\ last' = [op |-> "week", date |-> IF target_date = None THEN now ELSE target_date,
                tag |-> get_week_tag(target_date, now),
                bounds |-> get_week_start_end(target_date, now)]
    /\ UNCHANGED <<clk, techStore, mitStore, combined, pc>>

\* get_week_tag(parse_article_date(date_string)) as lines 148-150 call it
WeekOfRaw(date_string) ==
    /\ pc = "idle"
    /\ \E d \in {parse_article_date(date_string, now)} :
          last' = [op |-> "week_of_raw", raw |-> date_string, date |-> d,
                   tag |-> IF d # None THEN get_week_tag(d, now) ELSE get_week_tag(None, now)]
    /\ UNCHANGED <<clk, techStore, mitStore, combined, pc>>

NextUtil ==
    \/ Tick
    \/ \E text \in SummaryTexts, date \in RawDates, w \in WeekArgs, save \in BOOLEAN, fails \in BOOLEAN :
           Summarize("t", text, "l", date, w, save, fails)
    \/ \E d \in Dates \cup {None} : WeekOf(d)
    \/ \E raw \in RawDates : WeekOfRaw(raw)

SpecUtil == Init /\ [][NextUtil]_vars

(***************************************************************************)
(* SpecDaily: run_daily(hour), the scheduler loop of main.py, with the     *)
(* clock counted in hours: clk is the hour of the day.  pc is the place in *)
(* the loop: "d_top" (line 85), "d_sleep" (inside _sleep_until), "d_run"   *)
(* (inside main()), "d_pause" (the sleep of line 95), "d_stopped" (the     *)
(* KeyboardInterrupt handler ran and run_daily returned) or "d_crashed"    *)
(* (an exception left run_daily).  last holds the configured hour, the     *)
(* hours left until next_run, how the previous run ended and the last line *)
(* logged.  What a run does to the files is what the steps of SpecAgg      *)
(* describe; here a run only ends, normally or with an exception.          *)
(***************************************************************************)
HoursPerDay == 24

\* the hour argument of run_daily (minute = 0)
ConfiguredHours == {0, 7, HoursPerDay - 1}

\* _next_run_datetime(hour) at hour-of-day nowHour: today at hour:00, or
\* tomorrow when that is not after now
next_run_datetime(hour, nowHour) ==
    LET candidate == [day |-> 0, hour |-> hour]
    IN  IF candidate.hour <= nowHour THEN [candidate EXCEPT !.day = 1] ELSE candidate

\* (target_dt - now) of line 24, in hours
HoursUntil(target_dt, nowHour) == target_dt.day * HoursPerDay + target_dt.hour - nowHour

\* lines 89-95 with the try of line 89 left out: the exception leaves run_daily
AfterRunUncaught(outcome) == IF outcome = "raised" THEN "d_crashed" ELSE "d_pause"

\* lines 89-95: where the loop is after main() ended with outcome
AfterRun(outcome) == "d_pause"

InitDaily ==
    /\ clk \in 0..(HoursPerDay - 1)
    /\ techStore = MissingStore
    /\ mitStore = MissingStore
    /\ combined = <<>>
    /\ last \in [op : {"daily"}, hour : ConfiguredHours, left : {0}, prev : {"none"},
                 log : {"Daily scheduler started"}]
    /\ pc = "d_top"

\* an hour passes
Tock ==
    /\ clk' = (clk + 1) % HoursPerDay
    /\ last' = [last EXCEPT !.left = IF @ > 0 THEN @ - 1 ELSE 0]
    /\ UNCHANGED <<techStore, mitStore, combined, pc>>

\* lines 85-86
DailySchedule ==
    /\ pc = "d_top"
    /\ last' = [last EXCEPT !.left = HoursUntil(next_run_datetime(last.hour, clk), clk),
                            !.log = "Next run scheduled"]
    /\ pc' = "d_sleep"
    /\ UNCHANGED <<clk, techStore, mitStore, combined>>

\* lines 87-88: _sleep_until returns once next_run is reached
DailyWake ==
    /\ pc = "d_sleep"
    /\ last.left = 0
    /\ last' = [last EXCEPT !.log = "Starting scheduled run"]
    /\ pc' = "d_run"
    /\ UNCHANGED <<clk, techStore, mitStore, combined>>

\* lines 89-92: main() ends
DailyRunEnds(outcome) ==
    /\ pc = "d_run"
    /\ last' = [last EXCEPT !.prev = outcome,
                            !.log = IF outcome = "raised" THEN "Scheduled run failed" ELSE @]
    /\ pc' = AfterRun(outcome)
    /\ UNCHANGED <<clk, techStore, mitStore, combined>>

\* line 95
DailyPause ==
    /\ pc = "d_pause"
    /\ pc' = "d_top"
    /\ UNCHANGED <<clk, techStore, mitStore, combined, last>>

\* lines 96-97: Ctrl+C anywhere in the loop
DailyInterrupt ==
    /\ pc \in {"d_top", "d_sleep", "d_run", "d_pause"}
    /\ last' = [last EXCEPT !.log = "Daily scheduler stopped by user"]
    /\ pc' = "d_stopped"
    /\ UNCHANGED <<clk, techStore, mitStore, combined>>

NextDaily ==
    \/ Tock
    \/ DailySchedule
    \/ DailyWake
    \/ \E outcome \in {"ok", "raised"} : DailyRunEnds(outcome)
    \/ DailyPause
    \/ DailyInterrupt

\* the clock advances, every run ends and every sleep returns; an interrupt
\* may or may not come
SpecDaily ==
    /\ InitDaily
    /\ [][NextDaily]_vars
    /\ WF_vars(Tock)
    /\ WF_vars(DailySchedule)
    /\ WF_vars(DailyWake)
    /\ WF_vars(\E outcome \in {"ok", "raised"} : DailyRunEnds(outcome))
    /\ WF_vars(DailyPause)

(***************************************************************************)
(* SpecConc: two invocations of fetch_techmeme_news at once on the same    *)
(* store file.  An invocation reads the file (lines 121-124), builds its   *)
(* list and rewrites the file (lines 168-173); nothing locks the file in   *)
(* between.  pc[p] is where invocation p is: idle, or "loaded" with the    *)
(* store content it read and its feed.  last keeps the ids written to the  *)
(* file so far and whether two invocations ever overlapped.                *)
(***************************************************************************)
Procs == {1, 2}

\* the feeds of the invocations: one entry each
ConcFeeds == {f \in Feeds(TechEntries, 1) : f.entries # <<>>}

InitConc ==
    /\ clk = 1
    /\ techStore = MissingStore
    /\ mitStore = MissingStore
    /\ combined = <<>>
    /\ last = [op |-> "conc", persisted |-> {}, overlapped |-> FALSE]
    /\ pc = [p \in Procs |-> [at |-> "idle"]]

\* lines 111-124: the feed is retrieved and the store file read
ConcRead(p, feed) ==
    /\ pc[p].at = "idle"
    /\ pc' = [pc EXCEPT ![p] = [at |-> "loaded", store |-> techStore, feed |-> feed]]
    /\ last' = [last EXCEPT !.overlapped = @ \/ \E q \in Procs \ {p} : pc[q].at = "loaded"]
    /\ UNCHANGED <<clk, techStore, mitStore, combined>>

\* lines 126-173: the list is built from what was read and the file rewritten
ConcWrite(p) ==
    /\ pc[p].at = "loaded"
    /\ \E r \in {fetch_techmeme_news(pc[p].store, pc[p].feed, DefaultMaxArticles, now, "ok")} :
          /\ Len(r.store.data) <= MaxStoreLen
          /\ techStore' = r.store
          /\ last' = [last EXCEPT !.persisted =
                         @ \cup {r.store.data[i].id : i \in 1..Len(r.store.data)}]
    /\ pc' = [pc EXCEPT ![p] = [at |-> "idle"]]
    /\ UNCHANGED <<clk, mitStore, combined>>

NextConc ==
    \/ \E p \in Procs, feed \in ConcFeeds : ConcRead(p, feed)
    \/ \E p \in Procs : ConcWrite(p)

SpecConc == InitConc /\ [][NextConc]_vars

(***************************************************************************)
(* The claims.                                                             *)
(***************************************************************************)
(* SpecSum: one run of create_combined_weekly_data taken step by step: the *)
(* lists are loaded, the loop of lines 105-118 handles one article per     *)
(* step, then the bundle is sorted and written.  last keeps the locals of  *)
(* the run; pc = "agg_loop" while the run is inside or just past the loop. *)
(***************************************************************************)
\* line 106 taking every article as lacking a summary
LacksSummaryAlways(article) == TRUE

\* line 106: not article.get("summary")
LacksSummary(article) == article.summary \in {Absent, ""}

\* the summary texts a stored MIT record gets when its summary is filled in
FilledSummaries == {"", "kept"}

\* section 3: "the store is append-only except for the summary field being
\* filled in later": the summary of one stored MIT record is set
FillMitSummary(i, text) ==
    /\ pc = "idle"
    /\ mitStore.st = "ok"
    /\ i \in 1..Len(mitStore.data)
    /\ mitStore.data[i].summary = Absent
    /\ mitStore' = [mitStore EXCEPT !.data[i].summary = text]
    /\ last' = [op |-> "fill"]
    /\ UNCHANGED <<clk, techStore, combined, pc>>

\* lines 67-103: the week is resolved, both lists are loaded and concatenated;
\* the run ends here when there is no article
AggBegin(week_tag, failAt) ==
    /\ pc = "idle"
    /\ \E wt \in {IF week_tag = NoWeek THEN news_get_week_tag(None, now) ELSE week_tag} :
          \E all_articles \in {WithSource(get_mit_articles_for_week(mitStore, wt), "MIT AI News")
                                  \o WithSource(get_articles_for_week(techStore, wt, now), "Techmeme")} :
             /\ last' = [op |-> "sum", week_tag |-> week_tag, week |-> wt, failAt |-> failAt,
                         all_articles |-> all_articles, articles_with_summaries |-> <<>>,
                         calls |-> <<>>, service_calls |-> 0, wrote |-> FALSE]
             /\ pc' = IF all_articles = <<>> THEN "idle" ELSE "agg_loop"
    /\ UNCHANGED <<clk, techStore, mitStore, combined>>

\* lines 105-118: one pass of the loop; calls lists the positions of the
\* articles handed to summarize_news so far
AggLoop ==
    /\ pc = "agg_loop"
    /\ Len(last.articles_with_summaries) < Len(last.all_articles)
    /\ \E i \in {Len(last.articles_with_summaries) + 1} :
          \E article \in {last.all_articles[i]} :
             IF LacksSummary(article)
             THEN last' = [last EXCEPT
                              !.articles_with_summaries =
                                  Append(@, [article EXCEPT !.summary =
                                      news_summarize_news(article.title, article.content, article.link,
                                                          article.date, article.week,
                                                          last.failAt = last.service_calls + 1).summary]),
                              !.calls = Append(@, i),
                              !.service_calls = @ + (IF InvokesService(article.content) THEN 1 ELSE 0)]
             ELSE last' = [last EXCEPT !.articles_with_summaries = Append(@, article)]
    /\ UNCHANGED <<clk, techStore, mitStore, combined, pc>>

\* lines 120-147: the sort, the week bounds and the write of combined-week-<tag>.json
AggWrite ==
    /\ pc = "agg_loop"
    /\ Len(last.articles_with_summaries) = Len(last.all_articles)
    /\ \E sorted \in {SortByDateDesc(last.articles_with_summaries, now)},
          bounds \in {news_get_week_start_end(None, now)} :
          \E order \in ListsOf({sorted[i].source : i \in 1..Len(sorted)}) :
             combined' = [w \in DOMAIN combined \cup {last.week} |->
                             IF w = last.week
                             THEN [week |-> last.week,
                                   start_of_week |-> bounds[1],
                                   end_of_week |-> bounds[2],
                                   article_count |-> Len(sorted),
                                   sources |-> order,
                                   articles |-> sorted]
                             ELSE combined[w]]
    /\ last' = [last EXCEPT !.wrote = TRUE]
    /\ pc' = "idle"
    /\ UNCHANGED <<clk, techStore, mitStore>>

NextSum ==
    \/ \E mf \in Feeds(MitEntries, 1) : LoadMit(mf)
    \/ \E tf \in Feeds(TechEntries, MaxFeedLen) : LoadTech(tf, "ok")
    \/ \E i \in 1..MaxMitStoreLen, text \in FilledSummaries : FillMitSummary(i, text)
    \/ \E w \in WeekArgs, k \in FailAts : AggBegin(w, k)
    \/ AggLoop
    \/ AggWrite

SpecSum == Init /\ [][NextSum]_vars

(***************************************************************************)
(* SpecMain: main() of main.py, one step of its try block at a time.  last *)
(* keeps the run: the steps begun, the statuses of the fetches, the step   *)
(* that raised and what was printed for it.  pc is the position: "m_fetch" *)
(* and "m_fetch_tech" inside load_all_news_sources, "m_tag", "m_agg",      *)
(* "m_except" inside the except clause, "idle" once main() has returned.   *)
(***************************************************************************)
\* max_articles_per_source of line 45
MainMaxArticles == 5

\* a try block in which the statement after a raising one still runs
AfterStepContinuing(outcome, next) == next

\* lines 37-71: an exception leaves the try block for the except clause
AfterStep(outcome, next) == IF outcome = "raises" THEN "m_except" ELSE next

\* lines 39-41: current_week = get_week_tag()
MainStart ==
    /\ pc = "idle"
    /\ last' = [op |-> "main", current_week |-> get_week_tag(None, now), steps |-> <<>>,
                mit |-> "", techmeme |-> "", mit_added |-> 0, techmeme_added |-> 0,
                techmeme_entries |-> 0, techmeme_exc |-> FALSE,
                has_new_articles |-> FALSE, raised |-> "", log |-> <<>>, exit |-> "running"]
    /\ pc' = "m_fetch"
    /\ UNCHANGED <<clk, techStore, mitStore, combined>>

\* line 45, load_all_news_sources lines 34-44: the MIT fetch and its status
MainFetchMit(mitFeed) ==
    /\ pc = "m_fetch"
    /\ \E m \in {fetch_mit_news(mitStore, mitFeed, MainMaxArticles, now)} :
          /\ Len(m.store.data) <= MaxMitStoreLen
          /\ mitStore' = IF mitFeed.raises THEN mitStore ELSE m.store
          /\ last' = [last EXCEPT
                         !.steps = Append(@, "fetch"),
                         !.mit = StatusOf(IF mitFeed.raises THEN Raised ELSE m.result),
                         !.mit_added = IF mitFeed.raises THEN 0
                                       ELSE Len(m.store.data) - Len(mitStore.data)]
    /\ pc' = "m_fetch_tech"
    /\ UNCHANGED <<clk, techStore, combined>>

\* load_all_news_sources lines 46-65 and lines 47-52 of main: the Techmeme
\* fetch, its status, and has_new_articles
MainFetchTech(techFeed, io) ==
    /\ pc = "m_fetch_tech"
    /\ \E r \in {fetch_techmeme_news(techStore, techFeed, MainMaxArticles, now, io)} :
          /\ Len(r.store.data) <= MaxStoreLen
          /\ techStore' = r.store
          /\ \E sources_summary \in {load_all_news_sources(last.mit, StatusOf(r.result))} :
                last' = [last EXCEPT
                            !.techmeme = sources_summary["Techmeme"],
                            !.techmeme_added = r.added,
                            !.techmeme_entries = r.entries,
                            !.techmeme_exc = r.exc,
                            !.has_new_articles =
                                \E s \in DOMAIN sources_summary : sources_summary[s] = "Success"]
    /\ pc' = AfterStep("returns", "m_tag")
    /\ UNCHANGED <<clk, mitStore, combined>>

\* lines 54-57: tag_weekly_articles() of news_loader returns or raises
MainTag(outcome) ==
    /\ pc = "m_tag"
    /\ last' = [last EXCEPT !.steps = Append(@, "tag"),
                            !.raised = IF outcome = "raises" THEN "tag" ELSE @]
    /\ pc' = AfterStep(outcome, "m_agg")
    /\ UNCHANGED <<clk, techStore, mitStore, combined>>

\* lines 59-65: create_combined_weekly_data(current_week); io = "open_fails":
\* the open of line 140 raises and no file is written
MainAggregate(failAt, io) ==
    /\ pc = "m_agg"
    /\ \E b \in {create_combined_weekly_data(mitStore, techStore, last.current_week, now, failAt)} :
       \E outcome \in {IF b # NoBundle /\ io = "open_fails" THEN "raises" ELSE "returns"} :
          /\ IF b = NoBundle \/ outcome = "raises" THEN combined' = combined
             ELSE \E order \in ListsOf(b.sources) :
                     combined' = [w \in DOMAIN combined \cup {b.week} |->
                                     IF w = b.week THEN [b EXCEPT !.sources = order]
                                     ELSE combined[w]]
          /\ pc' = AfterStep(outcome, "idle")
          /\ last' = [last EXCEPT !.steps = Append(@, "aggregate"),
                                  !.raised = IF outcome = "raises" THEN "aggregate" ELSE @,
                                  !.exit = IF AfterStep(outcome, "idle") = "idle"
                                           THEN "returned" ELSE @]
    /\ UNCHANGED <<clk, techStore, mitStore>>

\* lines 67-71: the except clause prints the error and the traceback; main() returns
MainExcept ==
    /\ pc = "m_except"
    /\ last' = [last EXCEPT !.log = @ \o <<"Error in main function", "traceback">>,
                            !.exit = "returned"]
    /\ pc' = "idle"
    /\ UNCHANGED <<clk, techStore, mitStore, combined>>

NextMain ==
    \/ MainStart
    \/ \E mf \in Feeds(MitEntries, 1) : MainFetchMit(mf)
    \/ \E tf \in Feeds(TechEntries, MaxFeedLen), io \in {"ok"} \cup IOFaults : MainFetchTech(tf, io)
    \/ \E outcome \in {"returns", "raises"} : MainTag(outcome)
    \/ \E k \in FailAts, io \in {"ok", "open_fails"} : MainAggregate(k, io)
    \/ MainExcept

SpecMain == Init /\ [][NextMain]_vars

(***************************************************************************)
(* SpecSched: run_daily with the clock read to the microsecond.  Here clk  *)
(* is the local wall-clock instant datetime.now() returns, as a record of  *)
(* day, second of the day and microsecond.  last holds hour and minute,    *)
(* the target of the current pass (next_run), the instant it was computed  *)
(* at, the target of the pass before, the targets the pipeline was started *)
(* for, and whether the clock has been set back.  pc is "s_top",           *)
(* "s_sleep", "s_run" or "s_pause".                                        *)
(***************************************************************************)
SecondsPerDay == 86400

\* the days the scheduler is followed for
MaxSchedDays == 2

\* dt + timedelta(seconds=s)
AddSeconds(dt, s) ==
    LET total == dt.sec + s
    IN  [ord |-> dt.ord + (total \div SecondsPerDay), sec |-> total % SecondsPerDay, us |-> dt.us]

\* _next_run_datetime(hour, minute) with datetime.now() = at
NextRunDatetime(at, hour, minute) ==
    LET candidate == [ord |-> at.ord, sec |-> hour * 3600 + minute * 60, us |-> 0]
    IN  IF ~DtLess(at, candidate) THEN [candidate EXCEPT !.ord = @ + 1] ELSE candidate

\* the (hour, minute) arguments of run_daily
SchedTimes ==
    {<<h, m>> : h \in 0..23, m \in {0, 59}} \cup {<<7, m>> : m \in 0..59}

\* the instants at which run_daily is entered, on Sat 2025-10-25
SchedStarts ==
    {[ord |-> Ymd2Ord(2025, 10, 25), sec |-> s, us |-> u] :
        s \in {6 * 3600 + 59 * 60 + 59, 7 * 3600}, u \in {0, 999999}}

\* how long a run of main() takes, in seconds
RunSeconds == {0, 7200}

\* by how many seconds the local clock is set back while the loop sleeps:
\* not at all, or by the hour the end of daylight saving time takes back
ClockSetBack == {0, 3600}

InitSched ==
    /\ clk \in SchedStarts
    /\ techStore = MissingStore
    /\ mitStore = MissingStore
    /\ combined = <<>>
    /\ \E t \in SchedTimes :
          last = [op |-> "sched", hour |-> t[1], minute |-> t[2], at |-> None, next_run |-> None,
                  prev_next_run |-> None, started |-> <<>>, set_back |-> FALSE]
    /\ pc = "s_top"

\* lines 85-86: next_run = _next_run_datetime(hour, minute)
SchedNextRun ==
    /\ pc = "s_top"
    /\ clk.ord < Ymd2Ord(2025, 10, 25) + MaxSchedDays
    /\ last' = [last EXCEPT !.at = clk,
                            !.next_run = NextRunDatetime(clk, last.hour, last.minute),
                            !.prev_next_run = last.next_run]
    /\ pc' = "s_sleep"
    /\ UNCHANGED <<clk, techStore, mitStore, combined>>

\* line 87, _sleep_until lines 21-26: time.sleep for the seconds between the
\* two local readings; when the sleep ends the local clock shows next_run,
\* less what it was set back by meanwhile (which happens once)
SchedSleep(back) ==
    /\ pc = "s_sleep"
    /\ back # 0 => ~last.set_back
    /\ clk' = AddSeconds(last.next_run, 0 - back)
    /\ last' = [last EXCEPT !.set_back = @ \/ back # 0]
    /\ pc' = "s_run"
    /\ UNCHANGED <<techStore, mitStore, combined>>

\* lines 88-92: main() is started and ends, with or without an exception
SchedRun(seconds) ==
    /\ pc = "s_run"
    /\ last' = [last EXCEPT !.started = Append(@, last.next_run)]
    /\ clk' = AddSeconds(clk, seconds)
    /\ pc' = "s_pause"
    /\ UNCHANGED <<techStore, mitStore, combined>>

\* line 95: time.sleep(1)
SchedPause ==
    /\ pc = "s_pause"
    /\ clk' = AddSeconds(clk, 1)
    /\ pc' = "s_top"
    /\ UNCHANGED <<techStore, mitStore, combined, last>>

NextSched ==
    \/ SchedNextRun
    \/ \E back \in ClockSetBack : SchedSleep(back)
    \/ \E seconds \in RunSeconds : SchedRun(seconds)
    \/ SchedPause

SpecSched == InitSched /\ [][NextSched]_vars

(***************************************************************************)
(* SpecWeekly: the weekly files.  The Techmeme store grows by fetches of   *)
(* short feeds; the aggregator writes combined-week-<tag>.json and         *)
(* techmeme_loader's save_weekly_articles_with_summary writes              *)
(* techmeme-week-<tag>.json.                                               *)
(***************************************************************************)
\* the longest feed of this specification
MaxWeeklyFeedLen == 1

\* the name of the per-source weekly file of lines 330-331, without directory and suffix
TechmemeWeekFile(week_tag) == "techmeme-week-" \o week_tag

\* lines 293-317: every article of the week with a newly generated summary
\* (fails: the text-generation service is down during the run)
WeeklyArticles(weekly_articles_data, week_tag, at, fails) ==
    [i \in 1..Len(weekly_articles_data) |->
        LET article == weekly_articles_data[i]
        IN  [id |-> article.id,
             title |-> article.title,
             link |-> article.link,
             date |-> article.date,
             content |-> article.content,
             summary |-> summarize_news(article.title, article.content, article.link,
                                        article.date, article.week, at, fails).summary,
             week |-> week_tag,
             source |-> "Techmeme"]]

\* save_weekly_articles_with_summary(week_tag): the content it writes to
\* techmeme-week-<tag>.json, or NoBundle when it returns without writing
save_weekly_articles_with_summary(store, week_tag, at, fails) ==
    LET wt == IF week_tag = NoWeek THEN get_week_tag(None, at) ELSE week_tag
        weekly_articles_data == get_articles_for_week(store, wt, at)
        first_article_date == parse_article_date(weekly_articles_data[1].date, at)
        bounds == IF first_article_date # None THEN get_week_start_end(first_article_date, at)
                  ELSE get_week_start_end(None, at)
    IN  IF weekly_articles_data = <<>> THEN NoBundle
        ELSE [week |-> wt,
              start_of_week |-> bounds[1],
              end_of_week |-> bounds[2],
              article_count |-> Len(weekly_articles_data),
              source |-> "Techmeme",
              articles |-> WeeklyArticles(weekly_articles_data, wt, at, fails)]

\* python3 techmeme_loader.py weekly [week]
SaveTechWeekly(week_tag, fails) ==
    /\ pc = "idle"
    /\ \E b \in {save_weekly_articles_with_summary(techStore, week_tag, now, fails)} :
          /\ combined' = IF b = NoBundle THEN combined
                         ELSE [f \in DOMAIN combined \cup {TechmemeWeekFile(b.week)} |->
                                  IF f = TechmemeWeekFile(b.week) THEN b ELSE combined[f]]
          /\ last' = [op |-> "weekly", week_tag |-> week_tag, at |-> clk, fails |-> fails,
                      wrote |-> b # NoBundle]
    /\ UNCHANGED <<clk, techStore, mitStore, pc>>

NextWeekly ==
    \/ Tick
    \/ \E tf \in Feeds(TechEntries, MaxWeeklyFeedLen) : FetchTechmeme(tf, DefaultMaxArticles, "ok")
    \/ \E w \in WeekArgs, k \in FailAts : Aggregate(w, k)
    \/ \E w \in WeekArgs, fails \in BOOLEAN : SaveTechWeekly(w, fails)

SpecWeekly == Init /\ [][NextWeekly]_vars

(***************************************************************************)
(* SpecSearch: search_articles of app.py over what the vector store        *)
(* retrieves.  A retrieved document is its link (as parsed back from       *)
(* page_content), its title, the week of its metadata and its cosine       *)
(* distance in thousandths; the documents come nearest first.  embedding's *)
(* load_all_articles gives an article of the MIT store the week "all" and  *)
(* the same article read from combined-week-<tag>.json the week <tag>, so  *)
(* one link is indexed under both weeks.                                   *)
(***************************************************************************)
\* confidences are kept in thousandths: round(confidence, 3)
ConfidenceScale == 1000

\* threshold = 0.001, in thousandths
Threshold == 1

\* the most documents one retrieval returns in the model
MaxDocs == 2

\* week_filter=None
NoFilter == "<no filter>"

\* distance_to_confidence(distance): max(0, min(1, 1 - distance))
distance_to_confidence(distance) ==
    LET cosine_similarity == ConfidenceScale - distance
        capped == IF cosine_similarity < ConfidenceScale THEN cosine_similarity ELSE ConfidenceScale
    IN  IF capped > 0 THEN capped ELSE 0

\* the documents of the index: two articles, each under the week "all" and
\* under the week of its combined bundle
IndexedDocs ==
    [link : {"a", "b"}, title : {"t"}, week : {"all", "2025-W31"}]

\* the distances a retrieval reports: identical, just inside the threshold, outside
Distances == {0, ConfidenceScale - Threshold, ConfidenceScale}

\* vector_store.similarity_search_with_score(query, k=limit*2): at most k
\* documents, nearest first
Retrievals(limit) ==
    {s \in SeqsUpTo([doc : IndexedDocs, score : Distances], MaxDocs) :
        /\ Len(s) <= limit * 2
        /\ \A i \in 1..(Len(s) - 1) : s[i].score <= s[i + 1].score}

\* the loop of lines 157-194 from the document at the head of docs_scores on
RECURSIVE SearchLoop(_, _, _, _, _)
SearchLoop(docs_scores, week_filter, limit, unique_links, filtered_results) ==
    IF docs_scores = <<>> THEN filtered_results
    ELSE
      LET doc == Head(docs_scores).doc
          confidence == distance_to_confidence(Head(docs_scores).score)
          link == doc.link
          added == Append(filtered_results,
                          [title |-> doc.title, link |-> link, confidence |-> confidence])
      IN  IF confidence < Threshold
          THEN SearchLoop(Tail(docs_scores), week_filter, limit, unique_links, filtered_results)
          ELSE IF link \in unique_links
          THEN SearchLoop(Tail(docs_scores), week_filter, limit, unique_links, filtered_results)
          ELSE IF week_filter \notin {NoFilter, "", "all"} /\ doc.week # week_filter
          THEN SearchLoop(Tail(docs_scores), week_filter, limit,
                          unique_links \cup {link}, filtered_results)
          ELSE IF Len(added) >= limit THEN added
          ELSE SearchLoop(Tail(docs_scores), week_filter, limit, unique_links \cup {link}, added)

\* search_articles(query, week_filter, limit); available: the vector store was opened
search_articles(available, docs_scores, week_filter, limit) ==
    IF ~available THEN <<>>
    ELSE SearchLoop(docs_scores, week_filter, limit, {}, <<>>)

SearchLimits == {1, 2}

WeekFilters == {NoFilter, "all", "2025-W31"}

\* a request to /api/search
Search(available, docs_scores, week_filter, limit) ==
    /\ pc = "idle"
    /\ last' = [op |-> "search", available |-> available, docs_scores |-> docs_scores,
                week_filter |-> week_filter, limit |-> limit,
                results |-> search_articles(available, docs_scores, week_filter, limit)]
    /\ UNCHANGED <<clk, techStore, mitStore, combined, pc>>

NextSearch ==
    \E available \in BOOLEAN, limit \in SearchLimits, week_filter \in WeekFilters :
        \E docs_scores \in Retrievals(limit) : Search(available, docs_scores, week_filter, limit)

SpecSearch == Init /\ [][NextSearch]_vars

(***************************************************************************)
(* SpecDedup: fetches of the Techmeme feed where last also keeps what the  *)
(* fetch read: the entries of the feed it handled and the records the      *)
(* store held before.                                                      *)
(***************************************************************************)
\* python3 techmeme_loader.py fetch
FetchObserved(feed, max_articles) ==
    /\ pc = "idle"
    /\ \E r \in {fetch_techmeme_news(techStore, feed, max_articles, now, "ok")} :
          /\ Len(r.store.data) <= MaxStoreLen
          /\ techStore' = r.store
          /\ last' = [op |-> "fetch_observed", exc |-> r.exc, added |-> r.added,
                      skipped |-> r.skipped,
                      handled |-> Take(feed.entries, max_articles),
                      existing_data |-> techStore.data]
    /\ UNCHANGED <<clk, mitStore, combined, pc>>

NextDedup ==
    \/ Tick
    \/ \E feed \in Feeds(TechEntries, MaxFeedLen), n \in MaxArticleArgs : FetchObserved(feed, n)

SpecDedup == Init /\ [][NextDedup]_vars

(***************************************************************************)
FetchOps == {"fetch", "load"}

\* the records a store file holds (none when it is missing or unreadable)
StoreRecords(store) == IF store.st = "ok" THEN store.data ELSE <<>>

IsPrefix(a, b) == Len(a) <= Len(b) /\ SubSeq(b, 1, Len(a)) = a

Count(x, seq) == Cardinality({i \in 1..Len(seq) : seq[i] = x})

\* C1: from every store a run can leave and for every feed and max_articles,
\* a fetch followed by a second fetch of the same feed (at the same or a later
\* instant, both rewrites succeeding) appends nothing in the second run and
\* leaves the store as the first run left it.
C1_RefetchIdempotent ==
    \A feed \in Feeds(TechEntries, MaxFeedLen), n \in MaxArticleArgs, c \in clk..MaxClock :
        \A r1 \in {fetch_techmeme_news(techStore, feed, n, now, "ok")} :
            \A r2 \in {fetch_techmeme_news(r1.store, feed, n, Clock(c), "ok")} :
                /\ r2.added = 0
                /\ r2.store = r1.store
                /\ r2.exc = r1.exc
                /\ ~r2.exc => r2.skipped = Len(Take(feed.entries, n))

\* a run that found every entry of its feed in the store and skipped it
C1_Witness ==
    /\ last.op \in FetchOps
    /\ ~last.exc
    /\ last.added = 0
    /\ last.skipped >= 1
    /\ techStore.st = "ok"

\* C2: no two records of the per-source store have the same id.
C2_StoreIdsUnique ==
    \A i, j \in 1..Len(techStore.data) :
        i # j => techStore.data[i].id # techStore.data[j].id

\* C3: every step leaves the records the store held before as a prefix of the
\* records it holds after.
C3_StoreOnlyGrows ==
    [][IsPrefix(StoreRecords(techStore), StoreRecords(techStore'))]_vars

\* C4: no exception leaves fetch_techmeme_news: a failure comes back as a result
\* whose news_text is the error description; load_all_news_sources goes on to
\* the Techmeme fetch whatever the MIT fetch did and returns a status for both
\* sources.
C4_FetchNeverRaises ==
    /\ last.op \in FetchOps =>
          /\ last.result # Raised
          /\ last.exc => last.result.news_text
                            \in {ErrorResult(e).news_text : e \in {"feed", "json", "io"}}
    /\ last.op = "load_mit" => pc = "load"
    /\ last.op = "load" =>
          /\ DOMAIN last.summary = {"MIT AI News", "Techmeme"}
          /\ \A src \in DOMAIN last.summary :
                last.summary[src] \in {"Success", "No new articles", "Error"}

\* load_all_news_sources returned although the MIT fetch raised and the rewrite
\* of the Techmeme store failed
C4_Witness ==
    /\ last.op = "load"
    /\ last.exc
    /\ last.io = "dump_fails"
    /\ last.summary["MIT AI News"] = "Error"

\* C5: a fetch that finds the store file missing or unreadable, and a feed with
\* entries, treats every entry as new, persists them and returns no error.
C5_UnreadableStoreIsEmpty ==
    (/\ last.op \in FetchOps
     /\ last.store_was \in {"missing", "corrupt"}
     /\ last.entries > 0
     /\ last.io = "ok")
    => (/\ ~last.exc
        /\ last.skipped = 0
        /\ techStore.st = "ok"
        /\ Len(techStore.data) = last.added)

\* C6: every result fetch returns has the five fields news_text, title, link,
\* date and source.
C6_ResultHasFiveFields ==
    last.op \in FetchOps =>
        DOMAIN last.result = {"news_text", "title", "link", "date", "source"}

\* the week a run of the aggregator resolved its argument to
ResolvedWeek(l) ==
    IF l.week_tag = NoWeek THEN get_week_tag(None, Clock(l.at)) ELSE l.week_tag

\* a bundle article as the store holds it: without the summary
Stored(a) == [a EXCEPT !.summary = Absent]

OfWeek(store, w) == SelectSeq(StoreRecords(store), LAMBDA a : a.week = w)

\* C7: the bundle create_combined_weekly_data(W) has just written holds exactly
\* the records of the two stores whose week is W, each as often as the stores
\* hold it; every persisted bundle is filed under its own week, holds only
\* articles of that week and counts them in article_count.
C7_BundleIsTheWeek ==
    /\ \A w \in DOMAIN combined :
          /\ combined[w].week = w
          /\ combined[w].article_count = Len(combined[w].articles)
          /\ \A i \in 1..Len(combined[w].articles) : combined[w].articles[i].week = w
    /\ (last.op = "agg" /\ last.wrote) =>
          \A w \in {ResolvedWeek(last)} :
             /\ w \in DOMAIN combined
             /\ \A arts \in {[i \in 1..Len(combined[w].articles) |-> Stored(combined[w].articles[i])]} :
                   \A x \in {arts[i] : i \in 1..Len(arts)}
                            \cup {mitStore.data[i] : i \in 1..Len(mitStore.data)}
                            \cup {techStore.data[i] : i \in 1..Len(techStore.data)} :
                       Count(x, arts) = Count(x, OfWeek(mitStore, w)) + Count(x, OfWeek(techStore, w))

\* a bundle of two or more articles written while the Techmeme store also holds
\* an article of another week
C7_Witness ==
    /\ last.op = "agg"
    /\ last.wrote
    /\ combined[ResolvedWeek(last)].article_count >= 2
    /\ \E i \in 1..Len(techStore.data) : techStore.data[i].week # ResolvedWeek(last)

\* C8: in every persisted bundle the articles are in descending order of parsed
\* date, an unparsable date counting as datetime.min; so every article with an
\* unparsable date comes after every article with a parsable one.
C8_BundleSorted ==
    \A w \in DOMAIN combined :
        \A i, j \in 1..Len(combined[w].articles) :
            i < j =>
               /\ ~DtLess(SortKey(combined[w].articles[i], now), SortKey(combined[w].articles[j], now))
               /\ ~(/\ parse_article_date(combined[w].articles[i].date, now) = None
                    /\ parse_article_date(combined[w].articles[j].date, now) # None)

\* a bundle in which a dated Techmeme article precedes an undated MIT article,
\* against the order of concatenation
C8_Witness ==
    \E w \in DOMAIN combined :
        \E i, j \in 1..Len(combined[w].articles) :
            /\ i < j
            /\ combined[w].articles[i].source = "Techmeme"
            /\ parse_article_date(combined[w].articles[i].date, now) # None
            /\ combined[w].articles[j].source = "MIT AI News"
            /\ parse_article_date(combined[w].articles[j].date, now) = None

\* C9: every article of every persisted bundle has a title, a link and a
\* summary (none is missing or null).
C9_BundleFieldsPresent ==
    \A w \in DOMAIN combined :
        \A i \in 1..Len(combined[w].articles) :
            /\ combined[w].articles[i].title # Absent
            /\ combined[w].articles[i].link # Absent
            /\ combined[w].articles[i].summary # Absent

\* a bundle with an article whose summarization failed and one without content
C9_Witness ==
    \E w \in DOMAIN combined :
        \E i, j \in 1..Len(combined[w].articles) :
            /\ combined[w].articles[i].summary = ServiceError
            /\ combined[w].articles[j].summary = NoContentMarker

\* C10: when the aggregator runs again for the same week, with no fetch in
\* between and the service answering every call in both runs, the bundle file
\* of that week is rewritten with the content it had.
C10_RerunSameBundle ==
    [][(/\ last.op = "agg" /\ last.wrote /\ last.failAt = 0
        /\ last'.op = "agg" /\ last'.failAt = 0
        /\ ResolvedWeek(last') = ResolvedWeek(last))
       => combined'[ResolvedWeek(last)] = combined[ResolvedWeek(last)]]_vars

\* C11: a run of create_combined_weekly_data for a week of which neither store
\* holds an article returns nothing and leaves every bundle file as it was:
\* none is created and the one of that week, if there is one, is not rewritten.
C11_NoArticlesNoBundle ==
    [][(/\ last'.op = "agg"
        /\ OfWeek(mitStore, ResolvedWeek(last')) = <<>>
        /\ OfWeek(techStore, ResolvedWeek(last')) = <<>>)
       => (/\ ~last'.wrote
           /\ combined' = combined)]_vars

\* a run that wrote nothing for a week whose bundle file an earlier run had
\* written, the Techmeme store having become unreadable since
C11_Witness ==
    /\ last.op = "agg"
    /\ ~last.wrote
    /\ ResolvedWeek(last) \in DOMAIN combined
    /\ techStore.st = "corrupt"

\* C12: whichever service call of an aggregation run fails, the bundle the run
\* writes holds every article of the week; the article of the failed call has
\* the error text as its summary and it alone; every other article has the
\* summary the service gave for its content, or the no-content marker.
C12_FailureKeepsArticles ==
    (last.op = "agg" /\ last.wrote) =>
        \A arts \in {combined[ResolvedWeek(last)].articles} :
            /\ Len(arts) = Len(OfWeek(mitStore, ResolvedWeek(last)))
                              + Len(OfWeek(techStore, ResolvedWeek(last)))
            /\ \A i \in 1..Len(arts) :
                  IF arts[i].content \in BlankTexts
                  THEN arts[i].summary = NoContentMarker
                  ELSE arts[i].summary \in {Llm(arts[i].content), ServiceError}
            /\ Cardinality({i \in 1..Len(arts) : arts[i].summary = ServiceError})
                  = IF last.failAt \in 1..Cardinality({i \in 1..Len(arts) : arts[i].content \notin BlankTexts})
                    THEN 1 ELSE 0

\* a bundle written by a run whose first service call failed and whose second
\* succeeded
C12_Witness ==
    /\ last.op = "agg"
    /\ last.wrote
    /\ last.failAt = 1
    /\ \E i, j \in 1..Len(combined[ResolvedWeek(last)].articles) :
          /\ combined[ResolvedWeek(last)].articles[i].summary = ServiceError
          /\ combined[ResolvedWeek(last)].articles[j].summary
                = Llm(combined[ResolvedWeek(last)].articles[j].content)

\* C13: when the text handed to summarize_news is empty or whitespace only,
\* the summary returned is the no-content marker and the text-generation
\* service is not invoked, whatever the date and week tag and whether or not
\* the service would have answered.
C13_BlankTextNoService ==
    (last.op = "summarize" /\ last.news_text \in BlankTexts) =>
        /\ last.out.summary = NoContentMarker
        /\ last.calls = <<>>
        /\ last.file = NoFile

\* a call with a whitespace-only text while the service is failing
C13_Witness ==
    /\ last.op = "summarize"
    /\ last.news_text = "  "
    /\ last.fails

\* the Thursday of the Monday-to-Sunday week of day n: its year is the ISO
\* week-year, and the ISO week number counts the Thursdays of that year
ThursdayOf(n) == n - Weekday(n) + 3

\* the week number as two decimal digits
TwoDigits(k) == ToString(k \div 10) \o ToString(k % 10)

\* C14: the tag get_week_tag gives a date is <ISO week-year>-W<ISO week number
\* in two digits>; the tag of the feed date Fri, 01 Aug 2025 10:00:00 GMT is
\* 2025-W31.
C14_WeekTagIsIso ==
    /\ last.op = "week" =>
          \A thu \in {ThursdayOf(last.date.ord)} :
              last.tag = ToString(YearOfOrd(thu)) \o "-W"
                            \o TwoDigits((thu - Ymd2Ord(YearOfOrd(thu), 1, 1)) \div 7 + 1)
    /\ (last.op = "week_of_raw" /\ last.raw = "Fri, 01 Aug 2025 10:00:00 GMT") =>
          last.tag = "2025-W31"

\* a day of December 2024 tagged with the first week of 2025
C14_Witness ==
    /\ last.op = "week"
    /\ YearOfOrd(last.date.ord) = 2024
    /\ last.tag = "2025-W01"

\* C15: the bounds get_week_start_end gives a date d are a Monday at
\* 00:00:00.000000 and the Sunday six days later at 23:59:59.999999, with
\* start <= d <= end, and start, end and d have the same week tag.
C15_WeekBounds ==
    last.op = "week" =>
        /\ Weekday(last.bounds[1].ord) = 0
        /\ last.bounds[1].sec = 0 /\ last.bounds[1].us = 0
        /\ last.bounds[2].ord = last.bounds[1].ord + 6
        /\ Weekday(last.bounds[2].ord) = 6
        /\ last.bounds[2].sec = 23 * 3600 + 59 * 60 + 59 /\ last.bounds[2].us = 999999
        /\ ~DtLess(last.date, last.bounds[1])
        /\ ~DtLess(last.bounds[2], last.date)
        /\ get_week_tag(last.bounds[1], now) = last.tag
        /\ get_week_tag(last.bounds[2], now) = last.tag

\* a date that is the last instant of its week, in a week that spans two years
C15_Witness ==
    /\ last.op = "week"
    /\ last.date = last.bounds[2]
    /\ YearOfOrd(last.bounds[1].ord) # YearOfOrd(last.bounds[2].ord)

\* C16: in run_daily no exception of a run leaves the loop; the loop is left
\* only through the interrupt handler; and after every run, ended normally or
\* with an exception, the loop schedules a next run and that run starts, unless
\* an interrupt stops the loop first.
C16_DailyLoopContinues ==
    /\ [](pc # "d_crashed")
    /\ [](pc = "d_stopped" => last.log = "Daily scheduler stopped by user")
    /\ (pc = "d_pause" /\ last.prev = "raised") ~> (pc \in {"d_sleep", "d_stopped"})
    /\ (pc = "d_pause") ~> (pc \in {"d_run", "d_stopped"})

\* a run started after the run before it had ended with an exception
C16_Witness ==
    /\ pc = "d_run"
    /\ last.prev = "raised"

\* the ids of the records of a store
StoreIds(store) == {store.data[i].id : i \in 1..Len(store.data)}

\* C17: as long as no two invocations of fetch overlapped, every article an
\* invocation wrote to the store is still in it; two overlapping invocations
\* can leave the store without an article one of them had written.
C17_SequentialKeepsArticles ==
    (last.op = "conc" /\ ~last.overlapped) => last.persisted \subseteq StoreIds(techStore)

\* both invocations are done and an article one of them wrote is gone
C17_Witness ==
    /\ last.op = "conc"
    /\ last.overlapped
    /\ \A p \in Procs : pc[p].at = "idle"
    /\ \E id \in last.persisted : id \notin StoreIds(techStore)

\* whether a fetch result describes the article a
Describes(result, a) ==
    /\ result.title = a.title
    /\ result.news_text = a.content
    /\ result.link = a.link
    /\ result.date = a.date

\* the articles a run of fetch appended: the last `added` records of the store
Appended(store, added) == SubSeq(store.data, Len(store.data) - added + 1, Len(store.data))

Concatenation(w) ==
    WithSource(OfWeek(mitStore, w), "MIT AI News") \o WithSource(OfWeek(techStore, w), "Techmeme")

\* C19: the bundle an aggregation run has just written lists the articles as
\* one stable descending sort of the concatenation does: articles of equal
\* parsed date (those with unparsable dates among them) are in the order of
\* the concatenation, MIT AI News before Techmeme and store order within each.
C19_TiesKeepConcatenationOrder ==
    (last.op = "agg" /\ last.wrote) =>
        \A conc \in {Concatenation(ResolvedWeek(last))} :
            \A arts \in {[i \in 1..Len(combined[ResolvedWeek(last)].articles) |->
                             Stored(combined[ResolvedWeek(last)].articles[i])]} :
                /\ arts = SortByDateDesc(conc, now)
                /\ \A i, j \in 1..Len(arts) :
                      (i < j /\ SortKey(arts[i], now) = SortKey(arts[j], now)) =>
                          \E p, q \in 1..Len(conc) :
                              p < q /\ conc[p] = arts[i] /\ conc[q] = arts[j]

\* a bundle of three articles with unparsable dates: the one of MIT AI News,
\* then two different ones of Techmeme
C19_Witness ==
    /\ last.op = "agg"
    /\ last.wrote
    /\ \E arts \in {combined[ResolvedWeek(last)].articles} :
          /\ Len(arts) = 3
          /\ arts[1].source = "MIT AI News"
          /\ arts[2].source = "Techmeme"
          /\ arts[3].source = "Techmeme"
          /\ arts[2].id # arts[3].id
          /\ \A i \in 1..3 : parse_article_date(arts[i].date, now) = None

\* C20: the start_of_week and end_of_week of the bundle an aggregation run has
\* just written are the bounds of the week of the parsed date of the bundle's
\* first article, or of the week of the instant of the run when that date does
\* not parse.
C20_BoundsFromFirstArticle ==
    (last.op = "agg" /\ last.wrote) =>
        \A b \in {combined[ResolvedWeek(last)]} :
            \A first \in {parse_article_date(b.articles[1].date, Clock(last.at))} :
                <<b.start_of_week, b.end_of_week>>
                    = IF first # None THEN get_week_start_end(first, Clock(last.at))
                      ELSE get_week_start_end(None, Clock(last.at))


\* the positions among the first n articles of the list that have no summary
\* (absent or empty), in list order
RECURSIVE Lacking(_, _)
Lacking(articles, n) ==
    IF n = 0 THEN <<>>
    ELSE Lacking(articles, n - 1)
         \o (IF articles[n].summary = Absent \/ articles[n].summary = "" THEN <<n>> ELSE <<>>)

\* C21: throughout an aggregation run the articles handed to the summarizer
\* so far are exactly the handled articles that had no summary (absent or
\* empty), each once and in the order of the concatenated list; an article
\* with a non-empty summary is collected unchanged and one without gets a
\* summary string; each step of the run makes at most one invocation, and the
\* bundle is written only after every article is handled, with no invocation
\* at the write, its articles being the sort of the collected ones.
C21_SummarizedOnceInOrder ==
    /\ [](last.op = "sum" =>
            \A n \in {Len(last.articles_with_summaries)} :
               /\ last.calls = Lacking(last.all_articles, n)
               /\ \A j \in 1..n :
                     IF last.all_articles[j].summary \notin {Absent, ""}
                     THEN last.articles_with_summaries[j] = last.all_articles[j]
                     ELSE /\ last.articles_with_summaries[j].summary \notin {Absent, ""}
                          /\ [last.articles_with_summaries[j] EXCEPT !.summary = Absent]
                               = [last.all_articles[j] EXCEPT !.summary = Absent]
               /\ last.wrote => /\ n = Len(last.all_articles)
                                /\ combined[last.week].articles
                                     = SortByDateDesc(last.articles_with_summaries, now))
    /\ [][(last.op = "sum" /\ last'.op = "sum" /\ pc = "agg_loop") =>
             /\ Len(last'.calls) <= Len(last.calls) + 1
             /\ IsPrefix(last.calls, last'.calls)
             /\ (combined' # combined \/ last'.wrote) =>
                   /\ Len(last.articles_with_summaries) = Len(last.all_articles)
                   /\ last'.calls = last.calls]_vars

\* a finished run over three articles: one that had a non-empty summary and
\* two that were handed to the summarizer
C21_Witness ==
    /\ last.op = "sum"
    /\ last.wrote
    /\ Len(last.all_articles) = 3
    /\ \E j \in 1..3 : last.all_articles[j].summary \notin {Absent, ""}
    /\ Len(last.calls) = 2


\* the ISO week tag of day n, computed from the Thursday of its week
IsoTagOfDay(n) ==
    LET thu == ThursdayOf(n)
    IN  ToString(YearOfOrd(thu)) \o "-W" \o TwoDigits((thu - Ymd2Ord(YearOfOrd(thu), 1, 1)) \div 7 + 1)

\* the day a feed date string names, for the strings that parse (0: none)
DayNamedBy(date_string) ==
    IF date_string = "Fri, 01 Aug 2025 10:00:00 GMT" THEN Ymd2Ord(2025, 8, 1)
    ELSE IF date_string = "2025-08-04T09:00:00Z" THEN Ymd2Ord(2025, 8, 4)
    ELSE 0

\* C22: every record of the Techmeme store carries the ISO week of the day
\* its own date string names when that string parses, and the ISO week of the
\* instant of the fetch that appended it (its processed_at) when the string is
\* missing or does not parse; no step changes the week of a record that stays
\* in the store.
C22_WeekOfOwnDate ==
    /\ [](\A i \in 1..Len(techStore.data) :
            \A a \in {techStore.data[i]} :
               a.week = IF DayNamedBy(a.date) # 0 THEN IsoTagOfDay(DayNamedBy(a.date))
                        ELSE IsoTagOfDay(a.processed_at.ord))
    /\ [][\A i \in 1..Len(techStore.data) :
             i <= Len(techStore'.data) => techStore'.data[i].week = techStore.data[i].week]_vars

\* a store of two records appended by two fetches in different weeks: the
\* first has no parsable date and keeps the week of its fetch, the second is
\* dated in a week other than that of its fetch
C22_Witness ==
    /\ last.op \in FetchOps
    /\ last.added = 1
    /\ Len(techStore.data) = 2
    /\ DayNamedBy(techStore.data[1].date) = 0
    /\ techStore.data[1].processed_at = Clock(1)
    /\ techStore.data[1].week = "2025-W31"
    /\ techStore.data[2].processed_at = Clock(2)
    /\ techStore.data[2].week = "2025-W31"
    /\ IsoTagOfDay(Clock(2).ord) = "2025-W32"


\* C23: when a date string that parses is parsed and tagged again, at the
\* same instant or a later one, the week tag is the one it got before.
C23_ReparseSameWeek ==
    [][(/\ last.op = "week_of_raw"
        /\ last'.op = "week_of_raw"
        /\ last'.raw = last.raw
        /\ last.date # None
        /\ last'.date # None) => last'.tag = last.tag]_vars


\* C24: a run of main() begins the steps fetch, tag, aggregate in that
\* order, one at a time; once a step has raised no further step begins and
\* neither a store nor a bundle changes, the error and the traceback are
\* printed, and main() returns; a run in which no step raised has run all
\* three steps when it returns and has printed no error.
C24_PipelinePrefix ==
    /\ [](last.op = "main" =>
            /\ IsPrefix(last.steps, <<"fetch", "tag", "aggregate">>)
            /\ last.raised # "" => /\ last.steps # <<>>
                                   /\ last.steps[Len(last.steps)] = last.raised
                                   /\ pc \in {"m_except", "idle"}
            /\ pc = "idle" =>
                  /\ last.exit = "returned"
                  /\ IF last.raised # ""
                     THEN last.log = <<"Error in main function", "traceback">>
                     ELSE last.log = <<>> /\ last.steps = <<"fetch", "tag", "aggregate">>)
    /\ [][(last.op = "main" /\ pc # "idle") =>
             /\ IsPrefix(last.steps, last'.steps)
             /\ Len(last'.steps) <= Len(last.steps) + 1
             /\ last.raised # "" =>
                   /\ last'.steps = last.steps
                   /\ UNCHANGED <<techStore, mitStore, combined>>]_vars

\* a run that has returned after its tag step raised: no aggregation was begun
C24_Witness ==
    /\ last.op = "main"
    /\ pc = "idle"
    /\ last.raised = "tag"
    /\ last.steps = <<"fetch", "tag">>
    /\ last.exit = "returned"
    /\ techStore.data # <<>>

\* C25: when the statuses of a run of main() are in, the status of Techmeme
\* is Success only if its fetch appended an article in this run, and main
\* reports new articles only if one of the two fetches appended one.
C25_SuccessMeansAdded ==
    (last.op = "main" /\ pc \notin {"m_fetch", "m_fetch_tech"}) =>
        /\ last.techmeme = "Success" => last.techmeme_added >= 1
        /\ last.has_new_articles => last.mit_added + last.techmeme_added >= 1


\* C26: the target run_daily has just computed is strictly later than the
\* instant it was computed at and at most one day later, has the configured
\* hour and minute with second and microsecond zero, and is of the same day
\* when that time of day was still ahead and of the next day otherwise; it is
\* strictly later than the target of the pass before; and the pipeline is
\* never started twice for one target.
C26_NextRunAheadAndIncreasing ==
    last.next_run # None =>
        /\ DtLess(last.at, last.next_run)
        /\ ~DtLess([last.at EXCEPT !.ord = @ + 1], last.next_run)
        /\ last.next_run.sec = last.hour * 3600 + last.minute * 60
        /\ last.next_run.us = 0
        /\ last.next_run.ord =
              IF last.at.sec < last.next_run.sec THEN last.at.ord ELSE last.at.ord + 1
        /\ last.prev_next_run # None => DtLess(last.prev_next_run, last.next_run)
        /\ \A i, j \in 1..Len(last.started) : i # j => last.started[i] # last.started[j]


\* C27: a step that is an aggregation run leaves both stores as they were,
\* and of the weekly files it creates or changes none but the combined bundle
\* of the week it ran for: every other file that existed is still there with
\* the same content, and no other file has appeared.
C27_AggregationFrame ==
    [][(\E w \in WeekArgs, k \in FailAts : Aggregate(w, k)) =>
          /\ techStore' = techStore
          /\ mitStore' = mitStore
          /\ DOMAIN combined' \subseteq DOMAIN combined \cup {ResolvedWeek(last')}
          /\ \A f \in DOMAIN combined :
                f # ResolvedWeek(last') => (f \in DOMAIN combined' /\ combined'[f] = combined[f])]_vars

\* an aggregation run has just written the bundle of 2025-W32 with a summary
\* in it, while the bundle of 2025-W31 and a Techmeme weekly file exist and no
\* record of the Techmeme store has a summary
C27_Witness ==
    /\ last.op = "agg"
    /\ last.wrote
    /\ ResolvedWeek(last) = "2025-W32"
    /\ combined["2025-W32"].articles[1].summary \notin {Absent, ""}
    /\ "2025-W31" \in DOMAIN combined
    /\ TechmemeWeekFile("2025-W31") \in DOMAIN combined
    /\ techStore.data # <<>>
    /\ \A i \in 1..Len(techStore.data) : techStore.data[i].summary = Absent

\* C28: every weekly file that exists, combined or of one source, has as
\* start_of_week the Monday 00:00:00 of the ISO week its week field names and
\* as end_of_week the Sunday 23:59:59.999999 of that week.
C28_BoundsOfNamedWeek ==
    \A f \in DOMAIN combined :
        \A b \in {combined[f]} :
            /\ IsoTagOfDay(b.start_of_week.ord) = b.week
            /\ Weekday(b.start_of_week.ord) = 0
            /\ b.start_of_week.sec = 0 /\ b.start_of_week.us = 0
            /\ b.end_of_week = [ord |-> b.start_of_week.ord + 6, sec |-> 86399, us |-> 999999]


\* C29: after a search of an available index with a week filter other than
\* all, no two results have the same link, there are at most limit results,
\* every result has the link of a retrieved document of the filter's week
\* whose confidence reaches the threshold, and every such document has its
\* link among the results unless limit results were collected.
C29_SearchByWeek ==
    (last.op = "search" /\ last.available /\ last.week_filter \notin {NoFilter, "all"}) =>
        \A docs \in {last.docs_scores} :
            \A matching \in {{i \in 1..Len(docs) :
                                /\ docs[i].doc.week = last.week_filter
                                /\ ConfidenceScale - docs[i].score >= Threshold}} :
                /\ \A i, j \in 1..Len(last.results) :
                      i # j => last.results[i].link # last.results[j].link
                /\ Len(last.results) <= last.limit
                /\ \A i \in 1..Len(last.results) :
                      \E j \in matching : docs[j].doc.link = last.results[i].link
                /\ \A j \in matching :
                      \/ \E i \in 1..Len(last.results) : last.results[i].link = docs[j].doc.link
                      \/ Len(last.results) >= last.limit


\* link and title of a feed entry or of a stored record, absent ones as
\* empty, one after the other
LinkThenTitle(x) ==
    (IF x.link = Absent THEN "" ELSE x.link) \o (IF x.title = Absent THEN "" ELSE x.title)

\* C30: two records of the store have the same id exactly when link followed
\* by title is the same string for both; and a fetch appends no record for a
\* feed entry whose link followed by title is that of a record the store
\* already held, whether or not link and title themselves are the same: the
\* store has as many records of that string as before.
C30_IdIsLinkThenTitle ==
    /\ \A i, j \in 1..Len(techStore.data) :
          (techStore.data[i].id = techStore.data[j].id)
              <=> (LinkThenTitle(techStore.data[i]) = LinkThenTitle(techStore.data[j]))
    /\ (last.op = "fetch_observed" /\ ~last.exc) =>
          \A k \in 1..Len(last.handled) :
              \A e \in {last.handled[k]} :
                  (\E r \in 1..Len(last.existing_data) :
                        LinkThenTitle(last.existing_data[r]) = LinkThenTitle(e)) =>
                      Cardinality({i \in 1..Len(techStore.data) :
                                      LinkThenTitle(techStore.data[i]) = LinkThenTitle(e)})
                        = Cardinality({i \in 1..Len(last.existing_data) :
                                      LinkThenTitle(last.existing_data[i]) = LinkThenTitle(e)})

\* the store held the article of link "a" and title "bc"; a fetch handled the
\* entry of link "ab" and title "c" alone and skipped it
C30_Witness ==
    /\ last.op = "fetch_observed"
    /\ ~last.exc
    /\ Len(last.handled) = 1
    /\ last.handled[1].link = "ab"
    /\ last.handled[1].title = "c"
    /\ Len(last.existing_data) = 1
    /\ last.existing_data[1].link = "a"
    /\ last.existing_data[1].title = "bc"
    /\ last.skipped = 1
    /\ last.added = 0
    /\ techStore.data = last.existing_data

====
